---- MODULE Spec2Model ----
(***************************************************************************)
(* A model of districtcapital/paginate: the clause builders selectCols,    *)
(* orderBy and where, the page arithmetic of pageSize and build, and the   *)
(* pipeline of build / Do, PatchLikeQuery, ToQuery of package form, and    *)
(* two concurrent calls of pageSize.                                       *)
(*                                                                         *)
(* A Go string is a sequence of one-character strings, so that trimming,   *)
(* lower-casing, splitting and substring search are computed and not       *)
(* assumed.  A Go map is a function; ranging over it takes an iteration    *)
(* order, which the caller of the operator chooses arbitrarily.            *)
(***************************************************************************)
EXTENDS Integers, Sequences, FiniteSets, TLC

VARIABLES c, q, pc, db, loc, ret, prev, calls, rows, pages, hist, th

vars == <<c, q, pc, db, loc, ret, prev, calls, rows, pages, hist, th>>

(***************************************************************************)
(* Bounds of the model.                                                    *)
(***************************************************************************)
MaxSelect == 2
MaxOrder == 2
MaxCalls == 2
MaxRows == 3

(***************************************************************************)
(* Program constants.                                                      *)
(***************************************************************************)
defaultPageSize == 25
maxPageSize == 1000

(***************************************************************************)
(* Strings.                                                                *)
(***************************************************************************)
SeqsUpTo(S, n) == UNION {[1..k -> S] : k \in 0..n}

Perms(S) == {f \in [1..Cardinality(S) -> S] : \A x \in S : \E i \in DOMAIN f : f[i] = x}

Upper == <<"A","B","C","D","E","F","G","H","I","J","K","L","M","N","O","P","Q","R","S","T","U","V","W","X","Y","Z">>

Lower == <<"a","b","c","d","e","f","g","h","i","j","k","l","m","n","o","p","q","r","s","t","u","v","w","x","y","z">>

\* unicode.ToLower on one ASCII character
LowerCh(ch) == IF \E i \in 1..26 : Upper[i] = ch
               THEN Lower[CHOOSE i \in 1..26 : Upper[i] = ch]
               ELSE ch

\* the byte value of a character, as far as the order of sort.Strings needs it
CharCode(ch) == IF ch = "\t" THEN 9
                ELSE IF ch = " " THEN 32
                ELSE IF ch = "%" THEN 37
                ELSE IF ch = "," THEN 44
                ELSE IF ch = "0" THEN 48
                ELSE IF ch = "<" THEN 60
                ELSE IF ch = "=" THEN 61
                ELSE IF ch = ">" THEN 62
                ELSE IF ch = "?" THEN 63
                ELSE IF ch = "_" THEN 95
                ELSE IF \E i \in 1..26 : Upper[i] = ch
                     THEN 64 + (CHOOSE i \in 1..26 : Upper[i] = ch)
                ELSE IF \E i \in 1..26 : Lower[i] = ch
                     THEN 96 + (CHOOSE i \in 1..26 : Lower[i] = ch)
                ELSE 127

\* unicode.IsSpace, on the ASCII characters of the model
IsSpace(ch) == ch \in {" ", "\t", "\n", "\r"}

\* strings.ToLower
ToLower(s) == [i \in 1..Len(s) |-> LowerCh(s[i])]

\* strings.TrimSpace
TrimSpace(s) ==
    IF \A i \in 1..Len(s) : IsSpace(s[i]) THEN <<>>
    ELSE LET first == CHOOSE i \in 1..Len(s) :
                          /\ ~IsSpace(s[i])
                          /\ \A j \in 1..(i-1) : IsSpace(s[j])
             last == CHOOSE i \in 1..Len(s) :
                          /\ ~IsSpace(s[i])
                          /\ \A j \in (i+1)..Len(s) : IsSpace(s[j])
         IN SubSeq(s, first, last)

\* strings.EqualFold, on ASCII
EqualFold(s, t) == ToLower(s) = ToLower(t)

\* strings.Contains
Contains(s, sub) == \E i \in 1..(Len(s) - Len(sub) + 1) : SubSeq(s, i, i + Len(sub) - 1) = sub

\* strings.Split(s, sep) for a one-character separator
RECURSIVE Split(_, _)
Split(s, sep) ==
    IF \A i \in 1..Len(s) : s[i] # sep THEN <<s>>
    ELSE LET i == CHOOSE k \in 1..Len(s) : s[k] = sep /\ \A j \in 1..(k-1) : s[j] # sep
         IN <<SubSeq(s, 1, i-1)>> \o Split(SubSeq(s, i+1, Len(s)), sep)

\* strings.Join
RECURSIVE Join(_, _)
Join(list, sep) ==
    IF Len(list) = 0 THEN <<>>
    ELSE IF Len(list) = 1 THEN list[1]
    ELSE list[1] \o sep \o Join(Tail(list), sep)

\* s < t in the byte order of Go strings
RECURSIVE StrLess(_, _)
StrLess(s, t) ==
    IF Len(t) = 0 THEN FALSE
    ELSE IF Len(s) = 0 THEN TRUE
    ELSE IF CharCode(s[1]) # CharCode(t[1]) THEN CharCode(s[1]) < CharCode(t[1])
    ELSE StrLess(Tail(s), Tail(t))

\* sort.Strings: the sorted arrangement of a list, repeated elements kept
RECURSIVE InsertSorted(_, _)
InsertSorted(x, list) ==
    IF Len(list) = 0 THEN <<x>>
    ELSE IF StrLess(list[1], x) THEN <<list[1]>> \o InsertSorted(x, Tail(list))
    ELSE <<x>> \o list

RECURSIVE SortStrings(_)
SortStrings(list) ==
    IF Len(list) = 0 THEN <<>>
    ELSE InsertSorted(list[1], SortStrings(Tail(list)))

CommaSpace == <<",", " ">>

\* pad adds s to buf if the buffer is not empty
pad(buf, s) == IF Len(buf) > 0 THEN buf \o s ELSE buf

(***************************************************************************)
(* Errors and return values.                                               *)
(***************************************************************************)
NoErr == [kind |-> "nil", tok |-> <<>>]

Err(kind, tok) == [kind |-> kind, tok |-> tok]

NoRet == [fn |-> "none", frag |-> <<>>, args |-> <<>>, n |-> 0, err |-> NoErr]

Ret(fn, frag, args, err) == [fn |-> fn, frag |-> frag, args |-> args, n |-> 0, err |-> err]

(***************************************************************************)
(* selectCols builds the SELECT clause.                                    *)
(***************************************************************************)
\* the whitelist loop over c.SelectableCols for one lower-cased token
selectAllowed(cfg, s) == \E j \in 1..Len(cfg.SelectableCols) : EqualFold(s, cfg.SelectableCols[j])

\* selectLoop writing the trimmed token as requested, not lower-cased
RECURSIVE selectLoopRaw(_, _, _, _)
selectLoopRaw(cfg, qry, i, buf) ==
    IF i > Len(qry.Select) THEN
        IF Len(buf) = 0
        THEN Ret("selectCols", ToLower(Join(cfg.SelectableCols, CommaSpace)), <<>>, NoErr)
        ELSE Ret("selectCols", buf, <<>>, NoErr)
    ELSE LET s == TrimSpace(qry.Select[i]) IN
        IF Len(s) = 0 THEN selectLoopRaw(cfg, qry, i + 1, buf)
        ELSE IF Len(cfg.SelectableCols) = 0 THEN selectLoopRaw(cfg, qry, i + 1, pad(buf, CommaSpace) \o s)
        ELSE IF selectAllowed(cfg, s) THEN selectLoopRaw(cfg, qry, i + 1, pad(buf, CommaSpace) \o s)
        ELSE Ret("selectCols", <<>>, <<>>, Err("select", s))

\* the Outer loop from token i on, buf being the buffer built so far
RECURSIVE selectLoop(_, _, _, _)
selectLoop(cfg, qry, i, buf) ==
    IF i > Len(qry.Select) THEN
        IF Len(buf) = 0
        THEN Ret("selectCols", ToLower(Join(cfg.SelectableCols, CommaSpace)), <<>>, NoErr)
        ELSE Ret("selectCols", buf, <<>>, NoErr)
    ELSE LET s == ToLower(TrimSpace(qry.Select[i])) IN
        IF Len(s) = 0 THEN selectLoop(cfg, qry, i + 1, buf)
        ELSE IF Len(cfg.SelectableCols) = 0 THEN selectLoop(cfg, qry, i + 1, pad(buf, CommaSpace) \o s)
        ELSE IF selectAllowed(cfg, s) THEN selectLoop(cfg, qry, i + 1, pad(buf, CommaSpace) \o s)
        ELSE Ret("selectCols", <<>>, <<>>, Err("select", s))

\* selectCols answering "*" whenever nothing is requested, whitelist or not
selectColsStar(cfg, qry) ==
    IF Len(qry.Select) = 0
    THEN Ret("selectCols", <<"*">>, <<>>, NoErr)
    ELSE selectLoop(cfg, qry, 1, <<>>)

selectCols(cfg, qry) ==
    IF Len(cfg.SelectableCols) = 0 /\ Len(qry.Select) = 0
    THEN Ret("selectCols", <<"*">>, <<>>, NoErr)
    ELSE selectLoop(cfg, qry, 1, <<>>)

(***************************************************************************)
(* orderBy builds the ORDER BY clause.                                     *)
(***************************************************************************)
sAsc == <<"a", "s", "c">>

sDesc == <<"d", "e", "s", "c">>

\* the whitelist loop over c.OrderableCols for the column part of a token
orderAllowed(cfg, col) == \E j \in 1..Len(cfg.OrderableCols) : EqualFold(col, cfg.OrderableCols[j])

\* orderLoop writing the trimmed token as requested, not lower-cased
RECURSIVE orderLoopRaw(_, _, _, _)
orderLoopRaw(cfg, qry, i, buf) ==
    IF i > Len(qry.OrderBy) THEN Ret("orderBy", buf, <<>>, NoErr)
    ELSE LET o == qry.OrderBy[i]
             oo == ToLower(TrimSpace(o))
             ob == Split(oo, " ")
         IN IF Len(ob[1]) = 0 THEN orderLoopRaw(cfg, qry, i + 1, buf)
            ELSE IF Len(ob) > 2 THEN Ret("orderBy", <<>>, <<>>, Err("order format", o))
            ELSE IF Len(ob) = 2 /\ ob[2] # sAsc /\ ob[2] # sDesc
                 THEN Ret("orderBy", <<>>, <<>>, Err("order direction", o))
            ELSE IF orderAllowed(cfg, ob[1])
                 THEN orderLoopRaw(cfg, qry, i + 1, pad(buf, CommaSpace) \o TrimSpace(o))
            ELSE Ret("orderBy", <<>>, <<>>, Err("order column", o))

\* orderLoop without the check of the direction keyword
RECURSIVE orderLoopAnyDir(_, _, _, _)
orderLoopAnyDir(cfg, qry, i, buf) ==
    IF i > Len(qry.OrderBy) THEN Ret("orderBy", buf, <<>>, NoErr)
    ELSE LET o == qry.OrderBy[i]
             oo == ToLower(TrimSpace(o))
             ob == Split(oo, " ")
         IN IF Len(ob[1]) = 0 THEN orderLoopAnyDir(cfg, qry, i + 1, buf)
            ELSE IF Len(ob) > 2 THEN Ret("orderBy", <<>>, <<>>, Err("order format", o))
            ELSE IF orderAllowed(cfg, ob[1]) THEN orderLoopAnyDir(cfg, qry, i + 1, pad(buf, CommaSpace) \o oo)
            ELSE Ret("orderBy", <<>>, <<>>, Err("order column", o))

\* the Outer loop from token i on, buf being the buffer built so far
RECURSIVE orderLoop(_, _, _, _)
orderLoop(cfg, qry, i, buf) ==
    IF i > Len(qry.OrderBy) THEN Ret("orderBy", buf, <<>>, NoErr)
    ELSE LET o == qry.OrderBy[i]
             oo == ToLower(TrimSpace(o))
             ob == Split(oo, " ")
         IN IF Len(ob[1]) = 0 THEN orderLoop(cfg, qry, i + 1, buf)
            ELSE IF Len(ob) > 2 THEN Ret("orderBy", <<>>, <<>>, Err("order format", o))
            ELSE IF Len(ob) = 2 /\ ob[2] # sAsc /\ ob[2] # sDesc
                 THEN Ret("orderBy", <<>>, <<>>, Err("order direction", o))
            ELSE IF orderAllowed(cfg, ob[1]) THEN orderLoop(cfg, qry, i + 1, pad(buf, CommaSpace) \o oo)
            ELSE Ret("orderBy", <<>>, <<>>, Err("order column", o))

orderBy(cfg, qry) == orderLoop(cfg, qry, 1, <<>>)

(***************************************************************************)
(* where builds the WHERE clause.                                          *)
(***************************************************************************)
sAnd == <<" ", "A", "N", "D", " ">>

sOr == <<" ", "O", "R", " ">>

sAndOpen == <<" ", "A", "N", "D", " ", "(">>

sLikeLower == <<"l", "i", "k", "e">>

sLikeUpper == <<"L", "I", "K", "E">>

\* the canonical form of a WhereArgs key
canonKey(k) == ToLower(TrimSpace(k))

\* the keys slice after ranging over q.WhereArgs in the order iter, unsorted
whereKeys(iter) == [i \in 1..Len(iter) |-> canonKey(iter[i])]

\* valuesWithNewKeys after ranging over q.WhereArgs in the order iter: the
\* last entry written under a canonical key stays
valuesWithNewKeys(qry, iter) ==
    [kk \in {canonKey(iter[i]) : i \in 1..Len(iter)} |->
        LET last == CHOOSE i \in 1..Len(iter) :
                        /\ canonKey(iter[i]) = kk
                        /\ \A j \in (i+1)..Len(iter) : canonKey(iter[j]) # kk
        IN qry.WhereArgs[iter[last]]]

\* likeClauses returns the sorted keys of all Where clauses that have a
\* "LIKE" or "like" in them; iter is the order the map is ranged over
likeFilter(cfg, iter) ==
    SelectSeq(iter, LAMBDA k : Contains(cfg.Where[k], sLikeLower) \/ Contains(cfg.Where[k], sLikeUpper))

\* likeClauses without the sort: the keys in map iteration order
likeClausesUnsorted(cfg, iter) == likeFilter(cfg, iter)

likeClauses(cfg, iter) == SortStrings(likeFilter(cfg, iter))

\* andLoop passing over a key that has no Config.Where entry
RECURSIVE andLoopSkip(_, _, _, _, _, _)
andLoopSkip(cfg, keys, vals, i, buf, args) ==
    IF i > Len(keys) THEN [buf |-> buf, args |-> args, err |-> NoErr]
    ELSE LET k == keys[i] IN
        IF k \notin DOMAIN cfg.Where
        THEN andLoopSkip(cfg, keys, vals, i + 1, buf, args)
        ELSE andLoopSkip(cfg, keys, vals, i + 1,
                         pad(buf, sAnd) \o k \o <<" ">> \o cfg.Where[k],
                         Append(args, vals[k]))

\* the loop over the sorted WhereArgs keys, from key i on
RECURSIVE andLoop(_, _, _, _, _, _)
andLoop(cfg, keys, vals, i, buf, args) ==
    IF i > Len(keys) THEN [buf |-> buf, args |-> args, err |-> NoErr]
    ELSE LET k == keys[i] IN
        IF k \notin DOMAIN cfg.Where
        THEN [buf |-> <<>>, args |-> <<>>, err |-> Err("where argument", k)]
        ELSE andLoop(cfg, keys, vals, i + 1,
                     pad(buf, sAnd) \o k \o <<" ">> \o cfg.Where[k],
                     Append(args, vals[k]))

\* the loop over the LIKE keys, from key i on
RECURSIVE orLoop(_, _, _, _, _, _)
orLoop(cfg, qry, keys, i, orBuf, args) ==
    IF i > Len(keys) THEN [buf |-> orBuf, args |-> args]
    ELSE LET k == keys[i] IN
        orLoop(cfg, qry, keys, i + 1,
               pad(orBuf, sOr) \o k \o <<" ">> \o cfg.Where[k],
               Append(args, [kind |-> "str", n |-> 0, s |-> qry.Search]))

\* where leaving a disallowed search term out instead of refusing it
whereIgnoreSearch(cfg, qry, iter, likeIter) ==
    LET keys == SortStrings(whereKeys(iter))
        a == andLoop(cfg, keys, valuesWithNewKeys(qry, iter), 1, <<>>, <<>>)
    IN IF a.err # NoErr THEN Ret("where", <<>>, <<>>, a.err)
       ELSE IF qry.Search = <<>> \/ cfg.DisallowSearchTerm THEN Ret("where", a.buf, a.args, NoErr)
       ELSE LET o == orLoop(cfg, qry, likeClauses(cfg, likeIter), 1, <<>>, a.args)
                and == Len(a.buf) > 0
                or == Len(o.buf) > 0
            IN IF and /\ or THEN Ret("where", a.buf \o sAndOpen \o o.buf \o <<")">>, o.args, NoErr)
               ELSE IF or THEN Ret("where", o.buf, o.args, NoErr)
               ELSE Ret("where", a.buf, o.args, NoErr)

\* iter ranges over q.WhereArgs, likeIter over c.Where
where(cfg, qry, iter, likeIter) ==
    IF cfg.DisallowSearchTerm /\ qry.Search # <<>>
    THEN Ret("where", <<>>, <<>>, Err("search disallowed", <<>>))
    ELSE LET keys == SortStrings(whereKeys(iter))
             a == andLoop(cfg, keys, valuesWithNewKeys(qry, iter), 1, <<>>, <<>>)
         IN IF a.err # NoErr THEN Ret("where", <<>>, <<>>, a.err)
            ELSE IF qry.Search = <<>> THEN Ret("where", a.buf, a.args, NoErr)
            ELSE LET o == orLoop(cfg, qry, likeClauses(cfg, likeIter), 1, <<>>, a.args)
                     and == Len(a.buf) > 0
                     or == Len(o.buf) > 0
                 IN IF and /\ or THEN Ret("where", a.buf \o sAndOpen \o o.buf \o <<")">>, o.args, NoErr)
                    ELSE IF or THEN Ret("where", o.buf, o.args, NoErr)
                    ELSE Ret("where", a.buf, o.args, NoErr)

(***************************************************************************)
(* Fixed-width unsigned integers.  Query.Page is a uint32 and the offset a *)
(* uint64; they are kept as little-endian sequences of bytes, so that the  *)
(* widths of the conversions and of the product in build are computed.     *)
(* The uint16 page sizes are plain numbers.                                *)
(***************************************************************************)
\* the w low bytes of the number n
RECURSIVE ToBytes(_, _)
ToBytes(n, w) == IF w = 0 THEN <<>> ELSE <<n % 256>> \o ToBytes(n \div 256, w - 1)

IsZero(x) == \A i \in 1..Len(x) : x[i] = 0

\* x - 1 in the width of x
DecBytes(x) ==
    LET borrow(i) == \A j \in 1..(i-1) : x[j] = 0
    IN [i \in 1..Len(x) |-> IF borrow(i) THEN (x[i] + 255) % 256 ELSE x[i]]

\* x + 1 in the width of x
IncBytes(x) ==
    LET carry(i) == \A j \in 1..(i-1) : x[j] = 255
    IN [i \in 1..Len(x) |-> IF carry(i) THEN (x[i] + 1) % 256 ELSE x[i]]

\* the conversion uint64(x) of a narrower unsigned x
Uint64(x) == [i \in 1..8 |-> IF i <= Len(x) THEN x[i] ELSE 0]

\* x * y in the common width of x and y, the overflow dropped
RECURSIVE SumProducts(_, _, _, _)
SumProducts(x, y, k, i) ==
    IF i > k THEN 0 ELSE x[i] * y[k + 1 - i] + SumProducts(x, y, k, i + 1)

RECURSIVE mulFrom(_, _, _, _)
mulFrom(x, y, k, carry) ==
    IF k > Len(x) THEN <<>>
    ELSE LET column == carry + SumProducts(x, y, k, 1)
         IN <<column % 256>> \o mulFrom(x, y, k + 1, column \div 256)

MulBytes(x, y) == mulFrom(x, y, 1, 0)

(***************************************************************************)
(* pageSize resolves the effective page size; it writes the resolved       *)
(* defaults into the Config it is given.                                   *)
(***************************************************************************)
\* pageSizeConfig storing the defaults whatever the Config holds
pageSizeConfigAlways(cfg) ==
    [cfg EXCEPT !.DefaultPageSize = defaultPageSize,
                !.MaxPageSize = maxPageSize]

pageSizeConfig(cfg) ==
    [cfg EXCEPT !.DefaultPageSize = IF @ = 0 THEN defaultPageSize ELSE @,
                !.MaxPageSize = IF @ = 0 THEN maxPageSize ELSE @]

pageSize(cfg, qry) ==
    LET cc == pageSizeConfig(cfg)
    IN IF qry.PageSize = 0 THEN cc.DefaultPageSize
       ELSE IF qry.PageSize > cc.MaxPageSize THEN cc.MaxPageSize
       ELSE qry.PageSize

(***************************************************************************)
(* The query handle, a gorm.DB, that build configures.  log is the list   *)
(* of the methods called on it, in call order; found is what Find         *)
(* returned.                                                               *)
(***************************************************************************)
Zero64 == [i \in 1..8 |-> 0]

NewDB == [nil |-> FALSE, sel |-> <<>>, where |-> <<>>, args |-> <<>>, order |-> <<>>,
          offset |-> Zero64, limit |-> 0, log |-> <<>>, found |-> <<>>]

\* build returns nil for the handle; the calls already made stay in log
NilDB(d) == [d EXCEPT !.nil = TRUE]

\* the number a byte sequence stands for, saturated at 65536
SmallVal(x) == IF \A i \in 3..Len(x) : x[i] = 0 THEN x[1] + 256 * x[2] ELSE 65536

Min(a, b) == IF a < b THEN a ELSE b

\* the rows the database returns for OFFSET off LIMIT lim over the filtered,
\* ordered rows data
Find(data, off, lim) ==
    LET o == SmallVal(off)
    IN IF o >= Len(data) THEN <<>> ELSE SubSeq(data, o + 1, Min(o + lim, Len(data)))

(***************************************************************************)
(* Do and build, one action per stage of build.  Do takes Config and Query *)
(* by value: build works on the copies loc.c and loc.q.                    *)
(***************************************************************************)
DoCall ==
    /\ pc = "idle"
    /\ pc' = "select"
    /\ loc' = [c |-> c, q |-> q, size |-> 0, offset |-> Zero64]
    /\ db' = NewDB
    /\ UNCHANGED <<c, q, ret, prev, calls, rows, pages, hist, th>>

BuildSelect ==
    /\ pc = "select"
    /\ LET r == selectCols(loc.c, loc.q)
       IN /\ ret' = r
          /\ IF r.err # NoErr
             THEN pc' = "error" /\ db' = NilDB(db)
             ELSE /\ pc' = "where"
                  /\ db' = IF r.frag # <<>>
                           THEN [db EXCEPT !.sel = r.frag, !.log = Append(@, "Select")]
                           ELSE db
    /\ UNCHANGED <<c, q, loc, prev, calls, rows, pages, hist, th>>

BuildWhere ==
    /\ pc = "where"
    /\ \E iter \in Perms(DOMAIN loc.q.WhereArgs), likeIter \in Perms(DOMAIN loc.c.Where) :
         LET r == where(loc.c, loc.q, iter, likeIter)
         IN /\ ret' = r
            /\ IF r.err # NoErr
               THEN pc' = "error" /\ db' = NilDB(db)
               ELSE /\ pc' = "order"
                    /\ db' = IF r.frag # <<>>
                             THEN [db EXCEPT !.where = r.frag, !.args = r.args, !.log = Append(@, "Where")]
                             ELSE db
    /\ UNCHANGED <<c, q, loc, prev, calls, rows, pages, hist, th>>

\* BuildOrder going on to the page check whatever orderBy returned
BuildOrderIgnoreErr ==
    /\ pc = "order"
    /\ LET r == orderBy(loc.c, loc.q)
       IN /\ ret' = r
          /\ pc' = "page"
          /\ db' = IF r.frag # <<>>
                   THEN [db EXCEPT !.order = r.frag, !.log = Append(@, "Order")]
                   ELSE db
    /\ UNCHANGED <<c, q, loc, prev, calls, rows, pages, hist, th>>

BuildOrder ==
    /\ pc = "order"
    /\ LET r == orderBy(loc.c, loc.q)
       IN /\ ret' = r
          /\ IF r.err # NoErr
             THEN pc' = "error" /\ db' = NilDB(db)
             ELSE /\ pc' = "page"
                  /\ db' = IF r.frag # <<>>
                           THEN [db EXCEPT !.order = r.frag, !.log = Append(@, "Order")]
                           ELSE db
    /\ UNCHANGED <<c, q, loc, prev, calls, rows, pages, hist, th>>

\* the offset taken from the page itself, not from the page before it
buildOffsetNoDec(size, page) == MulBytes(Uint64(ToBytes(size, 2)), Uint64(page))

\* the offset with the product formed in 32 bits, the width of Query.Page
buildOffset32(size, page) == Uint64(MulBytes(ToBytes(size, 4), DecBytes(page)))

\* the offset computed by build from the page size and the page
buildOffset(size, page) == MulBytes(Uint64(ToBytes(size, 2)), Uint64(DecBytes(page)))

\* the page check on a signed 32-bit page, as of the int Page of the first
\* Query
pageInvalidSigned(qry) == IsZero(qry.Page) \/ qry.Page[4] >= 128

\* the page check of build
pageInvalid(qry) == IsZero(qry.Page)

BuildPage ==
    /\ pc = "page"
    /\ IF pageInvalid(loc.q)
       THEN /\ pc' = "error"
            /\ db' = NilDB(db)
            /\ ret' = Ret("build", <<>>, <<>>, Err("invalid page", loc.q.Page))
            /\ loc' = loc
       ELSE /\ pc' = "hook"
            /\ db' = db
            /\ ret' = [Ret("pageSize", <<>>, <<>>, NoErr) EXCEPT !.n = pageSize(loc.c, loc.q)]
            /\ loc' = [loc EXCEPT !.c = pageSizeConfig(loc.c),
                                  !.size = pageSize(loc.c, loc.q),
                                  !.offset = buildOffset(pageSize(loc.c, loc.q), loc.q.Page)]
    /\ UNCHANGED <<c, q, prev, calls, rows, pages, hist, th>>

BuildHook ==
    /\ pc = "hook"
    /\ pc' = "limit"
    /\ db' = IF loc.c.FilterFunc THEN [db EXCEPT !.log = Append(@, "FilterFunc")] ELSE db
    /\ UNCHANGED <<c, q, loc, ret, prev, calls, rows, pages, hist, th>>

BuildLimit ==
    /\ pc = "limit"
    /\ pc' = "find"
    /\ db' = [db EXCEPT !.offset = loc.offset, !.limit = loc.size,
                        !.log = @ \o <<"Offset", "Limit">>]
    /\ UNCHANGED <<c, q, loc, ret, prev, calls, rows, pages, hist, th>>

DoFind ==
    /\ pc = "find"
    /\ pc' = "returned"
    /\ db' = [db EXCEPT !.found = Find(rows, db.offset, db.limit), !.log = Append(@, "Find")]
    /\ ret' = Ret("Do", <<>>, <<>>, NoErr)
    /\ UNCHANGED <<c, q, loc, prev, calls, rows, pages, hist, th>>

DoError ==
    /\ pc = "error"
    /\ pc' = "returned"
    /\ ret' = Ret("Do", <<>>, <<>>, ret.err)
    /\ UNCHANGED <<c, q, db, loc, prev, calls, rows, pages, hist, th>>

\* the loop of testPagination: keep the page and ask for the next one, until
\* a page comes back empty
NextPage ==
    /\ pc = "returned"
    /\ ret.fn = "Do"
    /\ ret.err = NoErr
    /\ db.found # <<>>
    /\ Len(pages) <= MaxRows
    /\ pages' = Append(pages, db.found)
    /\ q' = [q EXCEPT !.Page = IncBytes(@)]
    /\ pc' = "idle"
    /\ UNCHANGED <<c, db, loc, ret, prev, calls, rows, hist, th>>

(***************************************************************************)
(* Direct calls of the clause builders and of pageSize.                    *)
(***************************************************************************)
SelectColsCall ==
    /\ pc = "idle"
    /\ calls < MaxCalls
    /\ calls' = calls + 1
    /\ prev' = ret
    /\ ret' = selectCols(c, q)
    /\ UNCHANGED <<c, q, pc, db, loc, rows, pages, hist, th>>

OrderByCall ==
    /\ pc = "idle"
    /\ calls < MaxCalls
    /\ calls' = calls + 1
    /\ prev' = ret
    /\ ret' = orderBy(c, q)
    /\ UNCHANGED <<c, q, pc, db, loc, rows, pages, hist, th>>

WhereCall ==
    /\ pc = "idle"
    /\ calls < MaxCalls
    /\ calls' = calls + 1
    /\ prev' = ret
    /\ \E iter \in Perms(DOMAIN q.WhereArgs), likeIter \in Perms(DOMAIN c.Where) :
         ret' = where(c, q, iter, likeIter)
    /\ UNCHANGED <<c, q, pc, db, loc, rows, pages, hist, th>>

PageSizeCall ==
    /\ pc = "idle"
    /\ calls < MaxCalls
    /\ calls' = calls + 1
    /\ prev' = ret
    /\ ret' = [Ret("pageSize", <<>>, <<>>, NoErr) EXCEPT !.n = pageSize(c, q)]
    /\ c' = pageSizeConfig(c)
    /\ UNCHANGED <<q, pc, db, loc, rows, pages, hist, th>>

(***************************************************************************)
(* The inputs the specifications draw from.  Column names and filter keys  *)
(* of a Config are SQL identifiers.                                        *)
(***************************************************************************)
IntVal(n) == [kind |-> "int", n |-> n, s |-> <<>>]

StrVal(str) == [kind |-> "str", n |-> 0, s |-> str]

NoMap == [k \in {} |-> <<>>]

Config0 == [SelectableCols |-> <<>>, OrderableCols |-> <<>>, Where |-> NoMap,
            DisallowSearchTerm |-> FALSE, DefaultPageSize |-> 0, MaxPageSize |-> 0,
            FilterFunc |-> FALSE]

Query0 == [Select |-> <<>>, WhereArgs |-> NoMap, PageSize |-> 0, Page |-> ToBytes(1, 4),
           OrderBy |-> <<>>, Search |-> <<>>]

sId == <<"i", "d">>

sAge == <<"a", "g", "e">>

sIq == <<"i", "q">>

sFn == <<"f", "n">>

sLn == <<"l", "n">>

sZz == <<"z", "z">>

\* "id", "ID", " Id\t", "age", "AGE ", "", " ", "iq"
SelTokens == {sId, <<"I", "D">>, <<" ", "I", "d", "\t">>, sAge, <<"A", "G", "E", " ">>,
              <<>>, <<" ">>, sIq}

SelWhitelists == {<<>>, <<sId>>, <<sId, <<"A", "G", "E">>>>, <<<<"A", "g", "e">>, <<"I", "D">>>>}

\* "id", "ID asc", " id DESC ", "age desc", "", "id up", "id asc desc",
\* "iq", "id  asc", "id\tasc"
OrdTokens == {sId,
              <<"I", "D", " ", "a", "s", "c">>,
              <<" ", "i", "d", " ", "D", "E", "S", "C", " ">>,
              <<"a", "g", "e", " ", "d", "e", "s", "c">>,
              <<>>,
              <<"i", "d", " ", "u", "p">>,
              <<"i", "d", " ", "a", "s", "c", " ", "d", "e", "s", "c">>,
              sIq,
              <<"i", "d", " ", " ", "a", "s", "c">>,
              <<"i", "d", "\t", "a", "s", "c">>}

OrdWhitelists == {<<>>, <<sId>>, <<<<"I", "D">>, sAge>>, <<sAge, sId>>}

fGt == <<">", " ", "?">>

fLt == <<"<", " ", "?">>

fEq == <<"=", " ", "?">>

fLike == <<"l", "i", "k", "e", " ", "?">>

fLIKE == <<"L", "I", "K", "E", " ", "?">>

fLikeMixed == <<"L", "i", "k", "e", " ", "?">>

WhereConfigs ==
    { NoMap,
      [k \in {sId, sAge} |-> IF k = sId THEN fGt ELSE fLt],
      [k \in {sFn, sLn, sAge} |-> IF k = sFn THEN fLike ELSE IF k = sLn THEN fLIKE ELSE fGt],
      [k \in {sLn, sFn, sId} |-> IF k = sId THEN fEq ELSE IF k = sLn THEN fLikeMixed ELSE fLike],
      [k \in {<<"I", "D">>} |-> fEq] }

kIdPadded == <<" ", "I", "D", " ">>

kAgeMixed == <<"a", "G", "e", " ">>

WhereArgSets ==
    { NoMap,
      [k \in {sId} |-> IntVal(1)],
      [k \in {kIdPadded, kAgeMixed} |-> IF k = kIdPadded THEN IntVal(32) ELSE IntVal(69)],
      [k \in {sId, <<"I", "D">>} |-> IF k = sId THEN IntVal(1) ELSE IntVal(2)],
      [k \in {sAge} |-> IntVal(30)],
      [k \in {sAge, sFn} |-> IF k = sAge THEN IntVal(22) ELSE StrVal(<<"B", "o", "b">>)],
      [k \in {sId, sZz} |-> IF k = sId THEN IntVal(32) ELSE IntVal(69)],
      [k \in {sZz} |-> IntVal(7)] }

Searches == {<<>>, <<"a", "u", "g">>}

PageSizes == {0, 1, 2, 3, 1000, 1001, 65535}

DefaultSizes == {0, 1, 2, 500, 65535}

MaxSizes == {0, 1, 2, 100, 65535}

\* 0, 1, 2, 3, 4, 65536, 2^31, 2^32 - 1
Pages == {ToBytes(0, 4), ToBytes(1, 4), ToBytes(2, 4), ToBytes(3, 4), ToBytes(4, 4),
          <<0, 0, 1, 0>>, <<0, 0, 0, 128>>, <<255, 255, 255, 255>>}

Rows(n) == [i \in 1..n |-> i]

TypeOK ==
    /\ pc \in {"idle", "select", "where", "order", "page", "hook", "limit", "find", "error", "returned"}
    /\ calls \in 0..MaxCalls
    /\ Len(pages) <= MaxRows + 1

InitCommon ==
    /\ pc = "idle"
    /\ db = NewDB
    /\ loc = [c |-> c, q |-> q, size |-> 0, offset |-> Zero64]
    /\ ret = NoRet
    /\ prev = NoRet
    /\ calls = 0
    /\ pages = <<>>
    /\ hist = <<>>
    /\ th = <<>>

(***************************************************************************)
(* selectCols alone, on every whitelist and request list of the bounds.    *)
(***************************************************************************)
InitSelect ==
    /\ \E w \in SelWhitelists : c = [Config0 EXCEPT !.SelectableCols = w]
    /\ \E r \in SeqsUpTo(SelTokens, MaxSelect) : q = [Query0 EXCEPT !.Select = r]
    /\ rows = <<>>
    /\ InitCommon

NextSelect == SelectColsCall

SpecSelect == InitSelect /\ [][NextSelect]_vars

(***************************************************************************)
(* orderBy alone.                                                          *)
(***************************************************************************)
InitOrder ==
    /\ \E w \in OrdWhitelists : c = [Config0 EXCEPT !.OrderableCols = w]
    /\ \E r \in SeqsUpTo(OrdTokens, MaxOrder) : q = [Query0 EXCEPT !.OrderBy = r]
    /\ rows = <<>>
    /\ InitCommon

NextOrder == OrderByCall

SpecOrder == InitOrder /\ [][NextOrder]_vars

(***************************************************************************)
(* where alone, called up to MaxCalls times on the same inputs.            *)
(***************************************************************************)
InitWhere ==
    /\ \E w \in WhereConfigs, d \in BOOLEAN :
         c = [Config0 EXCEPT !.Where = w, !.DisallowSearchTerm = d]
    /\ \E a \in WhereArgSets, t \in Searches :
         q = [Query0 EXCEPT !.WhereArgs = a, !.Search = t]
    /\ rows = <<>>
    /\ InitCommon

NextWhere == WhereCall

SpecWhere == InitWhere /\ [][NextWhere]_vars

(***************************************************************************)
(* pageSize alone, called up to MaxCalls times on the same Config.         *)
(***************************************************************************)
InitPageSize ==
    /\ \E d \in DefaultSizes, m \in MaxSizes :
         c = [Config0 EXCEPT !.DefaultPageSize = d, !.MaxPageSize = m]
    /\ \E s \in PageSizes : q = [Query0 EXCEPT !.PageSize = s]
    /\ rows = <<>>
    /\ InitCommon

NextPageSize == PageSizeCall

SpecPageSize == InitPageSize /\ [][NextPageSize]_vars

(***************************************************************************)
(* Do on requests whose clauses may each be valid or invalid.              *)
(***************************************************************************)
NextDo ==
    \/ DoCall
    \/ BuildSelect
    \/ BuildWhere
    \/ BuildOrder
    \/ BuildPage
    \/ BuildHook
    \/ BuildLimit
    \/ DoFind
    \/ DoError
    \/ NextPage

Init ==
    /\ \E sw \in {<<>>, <<sId, <<"A", "G", "E">>>>},
          ow \in {<<>>, <<sId>>},
          w \in {NoMap, [k \in {sId, sFn} |-> IF k = sId THEN fGt ELSE fLike]},
          d \in BOOLEAN, f \in BOOLEAN :
         c = [Config0 EXCEPT !.SelectableCols = sw, !.OrderableCols = ow, !.Where = w,
                             !.DisallowSearchTerm = d, !.FilterFunc = f]
    /\ \E sr \in {<<>>, <<<<"A", "g", "e">>>>, <<sId, sIq>>},
          or \in {<<>>, <<<<"i", "d", " ", "d", "e", "s", "c">>>>, <<sId, sIq>>,
                  <<<<"i", "d", " ", "u", "p">>>>},
          a \in {NoMap, [k \in {sId} |-> IntVal(1)],
                 [k \in {sId, sZz} |-> IF k = sId THEN IntVal(1) ELSE IntVal(2)]},
          t \in Searches,
          p \in {ToBytes(0, 4), ToBytes(1, 4)} :
         q = [Query0 EXCEPT !.Select = sr, !.OrderBy = or, !.WhereArgs = a,
                            !.Search = t, !.Page = p]
    /\ rows = Rows(2)
    /\ InitCommon

Next == NextDo

Spec == Init /\ [][Next]_vars

(***************************************************************************)
(* Do on requests with valid clauses, over pages, page sizes and data:     *)
(* the loop of testPagination.                                             *)
(***************************************************************************)
InitPaging ==
    /\ \E d \in {0, 2, 65535}, m \in {0, 2, 65535}, f \in BOOLEAN :
         c = [Config0 EXCEPT !.DefaultPageSize = d, !.MaxPageSize = m, !.FilterFunc = f]
    /\ \E s \in {0, 1, 2, 3, 65535}, p \in Pages :
         q = [Query0 EXCEPT !.PageSize = s, !.Page = p]
    /\ \E n \in 0..MaxRows : rows = Rows(n)
    /\ InitCommon

SpecPaging == InitPaging /\ [][NextDo]_vars

(***************************************************************************)
(* Do and pageSize on the same Config: Do is handed the Config by value,   *)
(* pageSize a pointer to it.                                               *)
(***************************************************************************)
InitDefaults ==
    /\ \E d \in {0, 2}, m \in {0, 2, 3} :
         c = [Config0 EXCEPT !.DefaultPageSize = d, !.MaxPageSize = m]
    /\ \E s \in {0, 1, 3}, p \in {ToBytes(0, 4), ToBytes(1, 4)} :
         q = [Query0 EXCEPT !.PageSize = s, !.Page = p]
    /\ rows = Rows(MaxRows)
    /\ InitCommon

NextDefaults == NextDo \/ PageSizeCall

SpecDefaults == InitDefaults /\ [][NextDefaults]_vars

(***************************************************************************)
(* PatchLikeQuery puts "%" around the LIKE arguments and the search term   *)
(* of a Query, in place.  hist keeps, per call, the Query before the call  *)
(* and the two flags.                                                      *)
(***************************************************************************)
sPercent == <<"%">>

\* the string with "%" prepended and appended as the flags say
patchString(s, prepend, append) ==
    (IF prepend THEN sPercent ELSE <<>>) \o s \o (IF append THEN sPercent ELSE <<>>)

\* the condition under which the loop rewrites the string s bound to the
\* Config.Where fragment w; && binds tighter than ||
patchCond(s, w) ==
    (~Contains(s, sPercent) /\ Contains(w, sLikeLower)) \/ Contains(w, sLikeUpper)

\* the loop over q.WhereArgs, ranged over in the order iter, from entry i on
RECURSIVE patchLoop(_, _, _, _, _, _)
patchLoop(cfg, args, iter, i, prepend, append) ==
    IF i > Len(iter) THEN args
    ELSE LET k == iter[i]
             v == args[k]
         IN IF v.kind # "str" THEN patchLoop(cfg, args, iter, i + 1, prepend, append)
            ELSE IF k \notin DOMAIN cfg.Where THEN patchLoop(cfg, args, iter, i + 1, prepend, append)
            ELSE IF patchCond(v.s, cfg.Where[k])
                 THEN patchLoop(cfg, [args EXCEPT ![k] = StrVal(patchString(v.s, prepend, append))],
                                iter, i + 1, prepend, append)
            ELSE patchLoop(cfg, args, iter, i + 1, prepend, append)

patchSearch(search, prepend, append) ==
    IF search # <<>> /\ ~Contains(search, sPercent)
    THEN patchString(search, prepend, append)
    ELSE search

PatchLikeQuery(cfg, qry, iter, prepend, append) ==
    [qry EXCEPT !.WhereArgs = patchLoop(cfg, qry.WhereArgs, iter, 1, prepend, append),
                !.Search = patchSearch(qry.Search, prepend, append)]

PatchLikeQueryCall ==
    /\ pc = "idle"
    /\ calls < MaxCalls
    /\ calls' = calls + 1
    /\ \E prepend \in BOOLEAN, append \in BOOLEAN, iter \in Perms(DOMAIN q.WhereArgs) :
         /\ q' = PatchLikeQuery(c, q, iter, prepend, append)
         /\ hist' = Append(hist, [q |-> q, prepend |-> prepend, append |-> append])
    /\ UNCHANGED <<c, pc, db, loc, ret, prev, rows, pages, th>>

sBob == <<"b", "o", "b">>

sBlah == <<"b", "l", "a", "h">>

kFnPadded == <<" ", "F", "n", " ">>

\* "bob", "%bob", "b%b", 38
PatchValues == {StrVal(sBob), StrVal(<<"%", "b", "o", "b">>), StrVal(<<"b", "%", "b">>), IntVal(38)}

PatchConfigs ==
    { [k \in {sFn, sId} |-> IF k = sFn THEN fLike ELSE fEq],
      [k \in {sFn, sId} |-> IF k = sFn THEN fLIKE ELSE fEq],
      [k \in {sFn, sId} |-> IF k = sFn THEN fLikeMixed ELSE fEq],
      [k \in {sId} |-> fEq] }

PatchArgSets ==
    {NoMap}
    \cup {[k \in {sFn, sId, sZz} |-> IF k = sFn THEN v ELSE IF k = sId THEN IntVal(38) ELSE StrVal(sBlah)]
            : v \in PatchValues}
    \cup {[k \in {kFnPadded, sId} |-> IF k = kFnPadded THEN v ELSE StrVal(sBob)] : v \in PatchValues}

\* "", "yodda", "yo%"
PatchSearches == {<<>>, <<"y", "o", "d", "d", "a">>, <<"y", "o", "%">>}

InitPatch ==
    /\ \E w \in PatchConfigs : c = [Config0 EXCEPT !.Where = w]
    /\ \E a \in PatchArgSets, t \in PatchSearches : q = [Query0 EXCEPT !.WhereArgs = a, !.Search = t]
    /\ rows = <<>>
    /\ InitCommon

NextPatch == PatchLikeQueryCall

SpecPatch == InitPatch /\ [][NextPatch]_vars

(***************************************************************************)
(* Package form: ToQuery fills a Query from the fields of a request        *)
(* struct.  A field is its name, its clause tag and its value; a numeric   *)
(* value is a sign and the 8 bytes of its magnitude, so that the           *)
(* conversions to uint64, uint32 and uint16 are computed in their widths.  *)
(* For a call of ToQuery hist keeps the Query before the call, the request *)
(* and the Query the call left.                                            *)
(***************************************************************************)
IntKinds == {"int"}

UintKinds == {"uint"}

\* the bytes of the 64-bit two's complement of -x
Neg64(x) == IncBytes([i \in 1..8 |-> 255 - x[i]])

getUint64(f) ==
    IF f.kind \in UintKinds THEN f.mag
    ELSE IF f.kind \in IntKinds THEN (IF f.neg THEN Neg64(f.mag) ELSE f.mag)
    ELSE Zero64

\* the conversion uint32(x) of a uint64: the four low bytes
uint32(x) == SubSeq(x, 1, 4)

\* the conversion uint16(x) of a uint64: the two low bytes, as a number
uint16(x) == x[1] + 256 * x[2]

getString(f) == IF f.kind = "string" THEN f.s ELSE <<>>

appendString(slice, f) ==
    IF f.kind = "string" THEN Append(slice, f.s)
    ELSE IF f.kind = "strings" THEN slice \o f.list
    ELSE slice

IsUpperCh(ch) == \E i \in 1..26 : Upper[i] = ch

\* the loop of snakeCase from character i on, last being the last character
\* written before lower-casing
RECURSIVE snakeFrom(_, _, _, _)
snakeFrom(s, i, last, buf) ==
    IF i > Len(s) THEN buf
    ELSE LET r == s[i]
         IN IF r = "_" THEN snakeFrom(s, i + 1, r, Append(buf, r))
            ELSE IF IsUpperCh(r) /\ ~IsUpperCh(last) /\ last # "_"
                 THEN snakeFrom(s, i + 1, r, buf \o <<"_", LowerCh(r)>>)
            ELSE snakeFrom(s, i + 1, r, Append(buf, LowerCh(r)))

snakeCase(s) == IF Len(s) = 0 THEN <<>> ELSE snakeFrom(s, 2, s[1], <<LowerCh(s[1])>>)

nPage == <<"P", "a", "g", "e">>

nPageSize == <<"P", "a", "g", "e", "S", "i", "z", "e">>

nOrderBy == <<"O", "r", "d", "e", "r", "B", "y">>

nSelect == <<"S", "e", "l", "e", "c", "t">>

nSearch == <<"S", "e", "a", "r", "c", "h">>

sWhere == <<"w", "h", "e", "r", "e">>

\* the field's value is the zero value of its type
fieldIsZero(f) ==
    IF f.kind \in IntKinds \cup UintKinds THEN IsZero(f.mag)
    ELSE IF f.kind = "string" THEN f.s = <<>>
    ELSE FALSE

\* structField.Interface() as a WhereArgs value
fieldValue(f) ==
    IF f.kind \in IntKinds \cup UintKinds
    THEN IntVal((IF f.neg THEN -1 ELSE 1) * (f.mag[1] + 256 * f.mag[2]))
    ELSE StrVal(f.s)

\* the part of the loop body after the switch on the field name
toQueryClause(qry, f) ==
    LET fullClause == Split(ToLower(TrimSpace(f.tag)), ",")
        clauseType == fullClause[1]
        argName == IF Len(fullClause) = 2 THEN TrimSpace(fullClause[2]) ELSE snakeCase(f.name)
    IN IF clauseType = sWhere /\ ~fieldIsZero(f)
       THEN [qry EXCEPT !.WhereArgs =
                [k \in DOMAIN @ \cup {argName} |-> IF k = argName THEN fieldValue(f) ELSE @[k]]]
       ELSE qry

\* the body of the loop of ToQuery for the field f
toQueryField(qry, f) ==
    IF f.name = nPage THEN [qry EXCEPT !.Page = uint32(getUint64(f))]
    ELSE IF f.name = nPageSize THEN [qry EXCEPT !.PageSize = uint16(getUint64(f))]
    ELSE IF f.name = nOrderBy THEN [qry EXCEPT !.OrderBy = appendString(@, f)]
    ELSE IF f.name = nSelect THEN [qry EXCEPT !.Select = appendString(@, f)]
    ELSE IF f.name = nSearch THEN toQueryClause([qry EXCEPT !.Search = getString(f)], f)
    ELSE toQueryClause(qry, f)

\* the loop of ToQuery over the fields of req, from field i on
RECURSIVE toQueryLoop(_, _, _)
toQueryLoop(req, qry, i) ==
    IF i > Len(req) THEN qry ELSE toQueryLoop(req, toQueryField(qry, req[i]), i + 1)

ToQuery(req, qry) == toQueryLoop(req, qry, 1)

NumField(name, kind, neg, mag, tag) ==
    [name |-> name, tag |-> tag, kind |-> kind, neg |-> neg, mag |-> mag, s |-> <<>>, list |-> <<>>]

StrField(name, str, tag) ==
    [name |-> name, tag |-> tag, kind |-> "string", neg |-> FALSE, mag |-> Zero64, s |-> str, list |-> <<>>]

\* a field of a kind ToQuery reads no number and no string from: "strings"
\* a slice of strings, "bytes" a byte slice, "map" a map
OtherField(name, kind, list) ==
    [name |-> name, tag |-> <<>>, kind |-> kind, neg |-> FALSE, mag |-> Zero64, s |-> <<>>, list |-> list]

\* Page: 7, 0, -1, 2^32-1, 2^32+1 (uint64) and the string "10"
PageFields ==
    { NumField(nPage, "int", FALSE, ToBytes(7, 8), <<>>),
      NumField(nPage, "int", FALSE, Zero64, <<>>),
      NumField(nPage, "int", TRUE, ToBytes(1, 8), <<>>),
      NumField(nPage, "uint", FALSE, <<255, 255, 255, 255, 0, 0, 0, 0>>, <<>>),
      NumField(nPage, "uint", FALSE, <<1, 0, 0, 0, 1, 0, 0, 0>>, <<>>),
      StrField(nPage, <<"1", "0">>, <<>>) }

\* PageSize: 25, -1, 65535, 65536+25 (uint32) and the bytes "32"
PageSizeFields ==
    { NumField(nPageSize, "int", FALSE, ToBytes(25, 8), <<>>),
      NumField(nPageSize, "int", TRUE, ToBytes(1, 8), <<>>),
      NumField(nPageSize, "uint", FALSE, ToBytes(65535, 8), <<>>),
      NumField(nPageSize, "uint", FALSE, <<25, 0, 1, 0, 0, 0, 0, 0>>, <<>>),
      OtherField(nPageSize, "bytes", <<>>) }

\* ID int16 `clause:"where"` = 99, XXX uint `clause:"where, age"` = 69,
\* Height int8 `clause:"where"` = 0, Selectme `clause:"select"`,
\* Select "id", OrderBy {"id", "age desc"}, Search "aug"
OtherFields ==
    << NumField(<<"I", "D">>, "int", FALSE, ToBytes(99, 8), sWhere),
       NumField(<<"X", "X", "X">>, "uint", FALSE, ToBytes(69, 8),
                <<"w", "h", "e", "r", "e", ",", " ", "a", "g", "e">>),
       NumField(<<"H", "e", "i", "g", "h", "t">>, "int", FALSE, Zero64, sWhere),
       StrField(<<"S", "e", "l", "e", "c", "t", "m", "e">>, <<"f", "o", "o">>, <<"s", "e", "l", "e", "c", "t">>),
       StrField(nSelect, sId, <<>>),
       OtherField(nOrderBy, "strings", <<sId, <<"a", "g", "e", " ", "d", "e", "s", "c">>>>),
       StrField(nSearch, <<"a", "u", "g">>, <<>>) >>

\* the request structs: nothing, a Page alone, a PageSize alone, and the
\* other fields with a numeric and with a non-numeric Page and PageSize
Forms ==
    {<<>>}
    \cup {<<f>> : f \in PageFields \cup PageSizeFields}
    \cup {<<NumField(nPage, "int", FALSE, ToBytes(7, 8), <<>>),
            NumField(nPageSize, "int", FALSE, ToBytes(25, 8), <<>>)>> \o OtherFields,
          <<StrField(nPage, <<"1", "0">>, <<>>), OtherField(nPageSize, "bytes", <<>>)>> \o OtherFields}

ToQueryCall ==
    /\ pc = "idle"
    /\ calls < MaxCalls
    /\ calls' = calls + 1
    /\ \E req \in Forms :
         /\ q' = ToQuery(req, q)
         /\ hist' = Append(hist, [q |-> q, req |-> req, out |-> ToQuery(req, q)])
    /\ UNCHANGED <<c, pc, db, loc, ret, prev, rows, pages, th>>

(***************************************************************************)
(* ToQuery, then Do on the Query it left.                                  *)
(***************************************************************************)
InitForm ==
    /\ c = [Config0 EXCEPT !.OrderableCols = <<sId, sAge>>,
                           !.Where = [k \in {sId, sAge, sFn} |-> IF k = sFn THEN fLike ELSE fGt]]
    /\ \E p \in {ToBytes(0, 4), ToBytes(3, 4)}, s \in {0, 10} :
         q = [Query0 EXCEPT !.Page = p, !.PageSize = s]
    /\ rows = Rows(2)
    /\ InitCommon

NextForm == ToQueryCall \/ NextDo

SpecForm == InitForm /\ [][NextForm]_vars

(***************************************************************************)
(* Two calls running concurrently, each with its own Query: th[t] is the   *)
(* state of call t.  In mode "build" both calls are given a pointer to the *)
(* one Config c; in mode "Do" each call works on the copy th[t].c that Do  *)
(* was handed.  Every read and every write of a Config field in pageSize   *)
(* is a step.  The accesses to the shared Config are not synchronized: a   *)
(* read by a call that has not itself written the field may return the     *)
(* value in memory or the value the field had when the calls began, for no *)
(* write of the other call happens before the read.  loc.c is the Config   *)
(* as it was when the calls began.                                         *)
(***************************************************************************)
Threads == {1, 2}

readDefault(t) ==
    IF th[t].mode = "Do" THEN {th[t].c.DefaultPageSize}
    ELSE IF th[t].wroteDefault THEN {c.DefaultPageSize}
    ELSE {c.DefaultPageSize, loc.c.DefaultPageSize}

readMax(t) ==
    IF th[t].mode = "Do" THEN {th[t].c.MaxPageSize}
    ELSE IF th[t].wroteMax THEN {c.MaxPageSize}
    ELSE {c.MaxPageSize, loc.c.MaxPageSize}

\* if c.DefaultPageSize == 0
CheckDefault(t) ==
    /\ th[t].pc = "checkDefault"
    /\ \E v \in readDefault(t) :
         th' = [th EXCEPT ![t].pc = IF v = 0 THEN "writeDefault" ELSE "checkMax"]
    /\ UNCHANGED <<c, q, pc, db, loc, ret, prev, calls, rows, pages, hist>>

\* c.DefaultPageSize = defaultPageSize
WriteDefault(t) ==
    /\ th[t].pc = "writeDefault"
    /\ IF th[t].mode = "Do"
       THEN /\ th' = [th EXCEPT ![t].pc = "checkMax", ![t].c.DefaultPageSize = defaultPageSize]
            /\ c' = c
       ELSE /\ th' = [th EXCEPT ![t].pc = "checkMax", ![t].wroteDefault = TRUE]
            /\ c' = [c EXCEPT !.DefaultPageSize = defaultPageSize]
    /\ UNCHANGED <<q, pc, db, loc, ret, prev, calls, rows, pages, hist>>

\* if c.MaxPageSize == 0
CheckMax(t) ==
    /\ th[t].pc = "checkMax"
    /\ \E v \in readMax(t) :
         th' = [th EXCEPT ![t].pc = IF v = 0 THEN "writeMax" ELSE "loadSize"]
    /\ UNCHANGED <<c, q, pc, db, loc, ret, prev, calls, rows, pages, hist>>

\* c.MaxPageSize = maxPageSize
WriteMax(t) ==
    /\ th[t].pc = "writeMax"
    /\ IF th[t].mode = "Do"
       THEN /\ th' = [th EXCEPT ![t].pc = "loadSize", ![t].c.MaxPageSize = maxPageSize]
            /\ c' = c
       ELSE /\ th' = [th EXCEPT ![t].pc = "loadSize", ![t].wroteMax = TRUE]
            /\ c' = [c EXCEPT !.MaxPageSize = maxPageSize]
    /\ UNCHANGED <<q, pc, db, loc, ret, prev, calls, rows, pages, hist>>

\* pageSize := q.PageSize; if pageSize == 0
LoadSize(t) ==
    /\ th[t].pc = "loadSize"
    /\ th' = [th EXCEPT ![t].pc = IF th[t].q.PageSize = 0 THEN "returnDefault" ELSE "compareMax"]
    /\ UNCHANGED <<c, q, pc, db, loc, ret, prev, calls, rows, pages, hist>>

\* return c.DefaultPageSize
ReturnDefault(t) ==
    /\ th[t].pc = "returnDefault"
    /\ \E v \in readDefault(t) : th' = [th EXCEPT ![t].pc = "limit", ![t].size = v]
    /\ UNCHANGED <<c, q, pc, db, loc, ret, prev, calls, rows, pages, hist>>

\* if pageSize > c.MaxPageSize, and return pageSize
CompareMax(t) ==
    /\ th[t].pc = "compareMax"
    /\ \E v \in readMax(t) :
         th' = IF th[t].q.PageSize > v
               THEN [th EXCEPT ![t].pc = "returnMax"]
               ELSE [th EXCEPT ![t].pc = "limit", ![t].size = th[t].q.PageSize]
    /\ UNCHANGED <<c, q, pc, db, loc, ret, prev, calls, rows, pages, hist>>

\* return c.MaxPageSize
ReturnMax(t) ==
    /\ th[t].pc = "returnMax"
    /\ \E v \in readMax(t) : th' = [th EXCEPT ![t].pc = "limit", ![t].size = v]
    /\ UNCHANGED <<c, q, pc, db, loc, ret, prev, calls, rows, pages, hist>>

\* the offset of build and its Offset and Limit calls
OffsetLimit(t) ==
    /\ th[t].pc = "limit"
    /\ th' = [th EXCEPT ![t].pc = "done", ![t].offset = buildOffset(th[t].size, th[t].q.Page)]
    /\ UNCHANGED <<c, q, pc, db, loc, ret, prev, calls, rows, pages, hist>>

Thread0(mode, cfg, qry) ==
    [pc |-> "checkDefault", mode |-> mode, c |-> cfg, q |-> qry,
     wroteDefault |-> FALSE, wroteMax |-> FALSE, size |-> 0, offset |-> Zero64]

InitRace ==
    /\ \E d \in {0, 2}, m \in {0, 3} :
         c = [Config0 EXCEPT !.DefaultPageSize = d, !.MaxPageSize = m]
    /\ q = Query0
    /\ \E mode \in {"build", "Do"}, s1 \in {0, 5, 2000}, s2 \in {0, 5, 2000} :
         th = << Thread0(mode, c, [Query0 EXCEPT !.PageSize = s1, !.Page = ToBytes(2, 4)]),
                 Thread0(mode, c, [Query0 EXCEPT !.PageSize = s2]) >>
    /\ rows = <<>>
    /\ pc = "idle"
    /\ db = NewDB
    /\ loc = [c |-> c, q |-> q, size |-> 0, offset |-> Zero64]
    /\ ret = NoRet
    /\ prev = NoRet
    /\ calls = 0
    /\ pages = <<>>
    /\ hist = <<>>

NextRace ==
    \E t \in Threads :
        \/ CheckDefault(t)
        \/ WriteDefault(t)
        \/ CheckMax(t)
        \/ WriteMax(t)
        \/ LoadSize(t)
        \/ ReturnDefault(t)
        \/ CompareMax(t)
        \/ ReturnMax(t)
        \/ OffsetLimit(t)

SpecRace == InitRace /\ [][NextRace]_vars

(***************************************************************************)
(* Properties.                                                             *)
(***************************************************************************)
Range(f) == {f[i] : i \in DOMAIN f}

\* token tok, trimmed, is a column of the whitelist W up to letter case
TokenMatches(tok, W) == \E j \in 1..Len(W) : EqualFold(TrimSpace(tok), W[j])

SelectAllMatch == \A i \in 1..Len(q.Select) : TokenMatches(q.Select[i], c.SelectableCols)

\* the request's tokens, trimmed and lower-cased, in request order
SelectExpected ==
    Join([i \in 1..Len(q.Select) |-> ToLower(TrimSpace(q.Select[i]))], CommaSpace)

\* the columns of a SELECT or ORDER BY fragment
ColumnsOf(frag) == {TrimSpace(p) : p \in Range(Split(frag, ","))} \ {<<>>}

InSelectRequest(col) == \E i \in 1..Len(q.Select) : EqualFold(TrimSpace(q.Select[i]), col)

SelectCalled == ret.fn = "selectCols"

SelectAnswersRequest ==
    /\ ret.err = NoErr
    /\ ret.frag = SelectExpected
    /\ \A col \in ColumnsOf(ret.frag) : InSelectRequest(col)

\* C1 as stated: with a non-empty whitelist, every request list whose tokens
\* all match the whitelist succeeds and selectCols returns exactly the
\* request's tokens, trimmed and lower-cased, in request order, joined by
\* ", ", and no column that is not in the request.  The empty request list
\* refutes it: selectCols then returns the whole whitelist.
C1_AsStated ==
    (SelectCalled /\ c.SelectableCols # <<>> /\ SelectAllMatch) => SelectAnswersRequest

\* C1, amended: with a non-empty whitelist, every non-empty request list
\* whose tokens all match the whitelist succeeds and selectCols returns
\* exactly the request's tokens, trimmed and lower-cased, in request order,
\* joined by ", ", repeated columns kept, and no column that is not in the
\* request.
C1_SelectReturnsRequest ==
    (SelectCalled /\ c.SelectableCols # <<>> /\ q.Select # <<>> /\ SelectAllMatch)
        => SelectAnswersRequest

\* a request that repeats a column in two spellings has been answered
C1_Witness ==
    /\ SelectCalled
    /\ c.SelectableCols # <<>>
    /\ Len(q.Select) = 2
    /\ SelectAllMatch
    /\ q.Select[1] # q.Select[2]
    /\ ToLower(TrimSpace(q.Select[1])) = ToLower(TrimSpace(q.Select[2]))
    /\ ret.frag = sId \o CommaSpace \o sId

\* a non-blank Select token that is not in a non-empty SelectableCols
BadSelect ==
    /\ c.SelectableCols # <<>>
    /\ \E i \in 1..Len(q.Select) :
         /\ TrimSpace(q.Select[i]) # <<>>
         /\ ~TokenMatches(q.Select[i], c.SelectableCols)

\* the column of an ORDER BY token: its text up to the first space
OrderColumn(tok) == Split(TrimSpace(tok), " ")[1]

\* an OrderBy token whose column is not in OrderableCols
BadOrder ==
    \E i \in 1..Len(q.OrderBy) :
        /\ OrderColumn(q.OrderBy[i]) # <<>>
        /\ \A j \in 1..Len(c.OrderableCols) :
             ~EqualFold(OrderColumn(q.OrderBy[i]), c.OrderableCols[j])

\* a WhereArgs key that, trimmed and lower-cased, has no Config.Where entry
BadWhere == \E k \in DOMAIN q.WhereArgs : ToLower(TrimSpace(k)) \notin DOMAIN c.Where

IsError(r) == r.err # NoErr /\ r.frag = <<>> /\ r.args = <<>>

DoReturned == pc = "returned" /\ ret.fn = "Do"

\* C2: a requested element outside the policy whitelist is a hard error: the
\* clause builder that meets it returns an error with an empty fragment (and
\* no arguments), also when earlier elements of the request were valid, and
\* Do returns an error and no query, and never runs Find.
C2_HardError ==
    /\ (ret.fn = "selectCols" /\ BadSelect) => (IsError(ret) /\ pc = "error" /\ db.nil)
    /\ (ret.fn = "where" /\ BadWhere) => (IsError(ret) /\ pc = "error" /\ db.nil)
    /\ (ret.fn = "orderBy" /\ BadOrder) => (IsError(ret) /\ pc = "error" /\ db.nil)
    /\ (DoReturned /\ (BadSelect \/ BadWhere \/ BadOrder))
         => (ret.err # NoErr /\ db.nil /\ db.found = <<>> /\ \A i \in 1..Len(db.log) : db.log[i] # "Find")

\* where has rejected a request whose first key is allowed and whose second
\* key is not, and Do has returned its error
C2_Witness ==
    /\ DoReturned
    /\ ~BadSelect
    /\ BadWhere
    /\ sId \in DOMAIN q.WhereArgs
    /\ sId \in DOMAIN c.Where
    /\ ret.err = Err("where argument", sZz)
    /\ db.nil

WhereCalled == ret.fn = "where"

\* the arrangements of the WhereArgs keys in which the canonical keys ascend
SortedKeyLists ==
    {p \in Perms(DOMAIN q.WhereArgs) :
        \A i, j \in 1..Len(p) : i < j => ~StrLess(ToLower(TrimSpace(p[j])), ToLower(TrimSpace(p[i])))}

\* "<key> <fragment>" for the canonical form of the WhereArgs key k
Conjunct(k) == ToLower(TrimSpace(k)) \o <<" ">> \o c.Where[ToLower(TrimSpace(k))]

\* the AND-group of the arrangement p of the WhereArgs keys
AndGroup(p) == Join([i \in 1..Len(p) |-> Conjunct(p[i])], sAnd)

\* C3 as stated: without a search term and with every WhereArgs key allowed,
\* the fragment is "<key> <fragment>" per canonical key in lexicographic
\* order joined by " AND ", and the arguments are the bound values in that
\* key order, one per conjunct; without WhereArgs both are empty.
C3_WhereNoSearch ==
    (WhereCalled /\ q.Search = <<>> /\ ~BadWhere) =>
        /\ ret.err = NoErr
        /\ \E p \in SortedKeyLists :
             /\ ret.frag = AndGroup(p)
             /\ ret.args = [i \in 1..Len(p) |-> q.WhereArgs[p[i]]]

\* a Config.Where key is LIKE-typed if its fragment has "like" or "LIKE"
LikeTyped(k) == Contains(c.Where[k], sLikeLower) \/ Contains(c.Where[k], sLikeUpper)

\* the LIKE-typed Config.Where keys in lexicographic order
LikeKeys ==
    CHOOSE p \in Perms({k \in DOMAIN c.Where : LikeTyped(k)}) :
        \A i, j \in 1..Len(p) : i < j => StrLess(p[i], p[j])

OrGroup == Join([i \in 1..Len(LikeKeys) |-> LikeKeys[i] \o <<" ">> \o c.Where[LikeKeys[i]]], sOr)

Combined(and, or) ==
    IF and # <<>> /\ or # <<>> THEN and \o sAnd \o <<"(">> \o or \o <<")">>
    ELSE IF or # <<>> THEN or
    ELSE and

C5_WhereDeterministic ==
    (calls = 2 /\ WhereCalled /\ prev.fn = "where") => ret = prev

\* the page of the call of Do in progress or last returned
PageZero == loc.q.Page = <<0, 0, 0, 0>>

NotCalled(method) == \A i \in 1..Len(db.log) : db.log[i] # method

\* C6: Do with page 0 fails, with the "invalid page" error when the clauses
\* are valid, and returns no query: page 0 is not served as page 1; for a
\* page >= 1 the page check does not fail.
C6_PageValidation ==
    /\ (DoReturned /\ PageZero) =>
          /\ ret.err # NoErr
          /\ db.nil
          /\ db.found = <<>>
          /\ NotCalled("Offset") /\ NotCalled("Limit") /\ NotCalled("Find")
    /\ (DoReturned /\ PageZero /\ ~BadSelect /\ ~BadWhere /\ ~BadOrder
          /\ ~(c.DisallowSearchTerm /\ q.Search # <<>>)) => ret.err.kind = "invalid page"
    /\ (DoReturned /\ ~PageZero) => ret.err.kind # "invalid page"
    /\ pc \in {"hook", "limit", "find"} => ~PageZero

\* Do has refused page 0 over a table that has rows
C6_Witness ==
    /\ DoReturned
    /\ PageZero
    /\ rows # <<>>
    /\ ret.err = Err("invalid page", <<0, 0, 0, 0>>)
    /\ db.nil

\* C7 as stated: the effective page size lies in [1, maxPageSize], where
\* maxPageSize is Config.MaxPageSize or 1000 when that is zero; a requested
\* size above the maximum is clamped to it and a requested size of zero
\* yields the resolved default.
C7_PageSizeInRange ==
    ret.fn = "pageSize" =>
        LET max == IF c.MaxPageSize = 0 THEN maxPageSize ELSE c.MaxPageSize
            def == IF c.DefaultPageSize = 0 THEN defaultPageSize ELSE c.DefaultPageSize
        IN /\ 1 <= ret.n
           /\ ret.n <= max
           /\ q.PageSize > max => ret.n = max
           /\ q.PageSize = 0 => ret.n = def

\* x * n and x + n for a little-endian byte sequence x of any length and a
\* number n below 2^16, with as many bytes as the result needs
RECURSIVE BigMulSmall(_, _, _)
BigMulSmall(x, n, carry) ==
    IF x = <<>> THEN IF carry = 0 THEN <<>> ELSE <<carry % 256>> \o BigMulSmall(<<>>, n, carry \div 256)
    ELSE <<(x[1] * n + carry) % 256>> \o BigMulSmall(Tail(x), n, (x[1] * n + carry) \div 256)

RECURSIVE BigAddSmall(_, _)
BigAddSmall(x, carry) ==
    IF x = <<>> THEN IF carry = 0 THEN <<>> ELSE <<carry % 256>> \o BigAddSmall(<<>>, carry \div 256)
    ELSE <<(x[1] + carry) % 256>> \o BigAddSmall(Tail(x), (x[1] + carry) \div 256)

\* x without its high zero bytes
RECURSIVE Norm(_)
Norm(x) == IF x # <<>> /\ x[Len(x)] = 0 THEN Norm(SubSeq(x, 1, Len(x) - 1)) ELSE x

PageComputed == pc \in {"hook", "limit", "find"} \/ (DoReturned /\ ret.err = NoErr)

\* C8: for every page p >= 1 and effective page size s, the 64-bit offset of
\* build is s * (p - 1) exactly: offset + s = s * p as unbounded numbers.
C8_OffsetExact ==
    PageComputed =>
        /\ Len(loc.offset) = 8
        /\ Norm(BigAddSmall(loc.offset, loc.size)) = Norm(BigMulSmall(loc.q.Page, loc.size, 0))

\* the largest page with the largest page size: 65535 * (2^32 - 2)
C8_Witness ==
    /\ PageComputed
    /\ loc.size = 65535
    /\ loc.q.Page = <<255, 255, 255, 255>>
    /\ loc.offset = <<2, 0, 254, 255, 254, 255, 0, 0>>

StageOrder == <<"Select", "Where", "Order", "FilterFunc", "Offset", "Limit", "Find">>

StageIndex(method) == CHOOSE i \in 1..Len(StageOrder) : StageOrder[i] = method

\* the calls of log were made in stage order, none of them twice
InStageOrder(log) ==
    /\ \A i \in 1..Len(log) : \E k \in 1..Len(StageOrder) : StageOrder[k] = log[i]
    /\ \A i, j \in 1..Len(log) : i < j => StageIndex(log[i]) < StageIndex(log[j])

Called(method) == \E i \in 1..Len(db.log) : db.log[i] = method

SelectFails == BadSelect

WhereFails == (c.DisallowSearchTerm /\ q.Search # <<>>) \/ BadWhere

\* an ORDER BY token that is malformed or not allowed
OrderFails ==
    \E i \in 1..Len(q.OrderBy) :
        LET parts == Split(ToLower(TrimSpace(q.OrderBy[i])), " ")
        IN /\ parts[1] # <<>>
           /\ \/ Len(parts) > 2
              \/ Len(parts) = 2 /\ parts[2] \notin {sAsc, sDesc}
              \/ \A j \in 1..Len(c.OrderableCols) : ~EqualFold(parts[1], c.OrderableCols[j])

\* C9: build runs select, where, order-by, page check, hook, OFFSET/LIMIT in
\* that order and stops at the first failing stage: Do returns the error of
\* the earliest failing stage with a nil query, without the hook and without
\* Find; when all four validations succeed the hook (if the Config has one)
\* runs exactly once, after WHERE/ORDER and before OFFSET/LIMIT, and Find
\* runs once at the end.
C9_Pipeline ==
    /\ InStageOrder(db.log)
    /\ Called("FilterFunc") => (c.FilterFunc /\ ~SelectFails /\ ~WhereFails /\ ~OrderFails /\ ~PageZero)
    /\ Called("Find") => (~SelectFails /\ ~WhereFails /\ ~OrderFails /\ ~PageZero)
    /\ (DoReturned /\ ret.err # NoErr) =>
          (db.nil /\ ~Called("FilterFunc") /\ ~Called("Offset") /\ ~Called("Limit") /\ ~Called("Find"))
    /\ DoReturned =>
          IF SelectFails THEN ret.err.kind = "select" /\ db.log = <<>>
          ELSE IF WhereFails THEN ret.err.kind \in {"search disallowed", "where argument"}
                                  /\ ~Called("Where") /\ ~Called("Order")
          ELSE IF OrderFails THEN ret.err.kind \in {"order format", "order direction", "order column"}
                                  /\ ~Called("Order")
          ELSE IF PageZero THEN ret.err.kind = "invalid page"
          ELSE /\ ret.err = NoErr
               /\ ~db.nil
               /\ Called("FilterFunc") <=> c.FilterFunc
               /\ Len(db.log) >= 3
               /\ SubSeq(db.log, Len(db.log) - 2, Len(db.log)) = <<"Offset", "Limit", "Find">>

\* a request that passes every stage, with a hook
C9_Witness ==
    /\ DoReturned
    /\ ret.err = NoErr
    /\ c.FilterFunc
    /\ db.log = StageOrder

\* the rows of page p (a 4-byte number) when the page size is s
PageOf(p, s) == SelectSeq(rows, LAMBDA r : ToBytes(((r - 1) \div s) + 1, 4) = p)

RECURSIVE Flatten(_)
Flatten(list) == IF list = <<>> THEN <<>> ELSE list[1] \o Flatten(Tail(list))

\* testPagination began at page 1: the pages kept are pages 1..Len(pages)
StartedAtOne == loc.q.Page = ToBytes(Len(pages) + 1, 4)

\* C10: Do for page p returns rows s*(p-1)+1 .. min(s*p, |F|) of the
\* filtered, ordered rows F, s being the effective page size; so the pages
\* 1..ceil(|F|/s) are non-empty, pairwise disjoint and concatenate to F, and
\* every later page is empty.
C10_PagesPartition ==
    (DoReturned /\ ret.err = NoErr) =>
        /\ db.found = PageOf(loc.q.Page, loc.size)
        /\ StartedAtOne =>
            /\ \A i \in 1..Len(pages) : pages[i] # <<>> /\ pages[i] = PageOf(ToBytes(i, 4), loc.size)
            /\ \A i, j \in 1..Len(pages) : i # j => Range(pages[i]) \cap Range(pages[j]) = {}
            /\ \A i \in 1..Len(pages) : Range(pages[i]) \cap Range(db.found) = {}
            /\ Flatten(pages) \o db.found = SubSeq(rows, 1, Len(Flatten(pages)) + Len(db.found))
            /\ db.found = <<>> =>
                /\ Flatten(pages) = rows
                /\ Len(pages) * loc.size >= Len(rows)
                /\ Len(pages) > 0 => (Len(pages) - 1) * loc.size < Len(rows)

\* three rows served as a page of two and a page of one, then an empty page
C10_Witness ==
    /\ DoReturned
    /\ ret.err = NoErr
    /\ loc.size = 2
    /\ pages = <<<<1, 2>>, <<3>>>>
    /\ db.found = <<>>
    /\ loc.q.Page = ToBytes(3, 4)

\* the Query left by the i-th PatchLikeQuery call
PatchAfter(i) == IF i = Len(hist) THEN q ELSE hist[i + 1].q

\* the i-th call left every WhereArgs value and the Search as they were
PatchAddsNothing(i) ==
    /\ PatchAfter(i).WhereArgs = hist[i].q.WhereArgs
    /\ PatchAfter(i).Search = hist[i].q.Search

\* C11: PatchLikeQuery is idempotent: PatchLikeQuery(c, q, true, true) twice
\* leaves the Query one call leaves, and after a call with prepend or append
\* set any further call, whatever its flags, adds no "%" to a WhereArgs value
\* or to Search.
C11_PatchIdempotent ==
    \A i \in 2..Len(hist) :
        (\E j \in 1..(i - 1) : hist[j].prepend \/ hist[j].append) => PatchAddsNothing(i)

\* the WhereArgs entry k of qry is a string without "%" whose canonical key
\* names a Config.Where fragment containing "like" in any letter case
PatchExpected(qry, k) ==
    /\ qry.WhereArgs[k].kind = "str"
    /\ canonKey(k) \in DOMAIN c.Where
    /\ Contains(ToLower(c.Where[canonKey(k)]), sLikeLower)
    /\ ~Contains(qry.WhereArgs[k].s, sPercent)

SearchExpected(qry) == qry.Search # <<>> /\ ~Contains(qry.Search, sPercent)

\* C12: PatchLikeQuery rewrites a WhereArgs entry to ("%" if prepend) + value
\* + ("%" if append) exactly when the value is a string without "%" and the
\* trimmed, lower-cased key matches a Config.Where key whose fragment has
\* "like" in any letter case, and rewrites Search the same way exactly when
\* it is non-empty and has no "%".
C12_PatchExactly ==
    \A i \in 1..Len(hist) :
        LET before == hist[i].q
            after == PatchAfter(i)
        IN /\ DOMAIN after.WhereArgs = DOMAIN before.WhereArgs
           /\ \A k \in DOMAIN before.WhereArgs :
                after.WhereArgs[k] =
                    IF PatchExpected(before, k)
                    THEN StrVal(patchString(before.WhereArgs[k].s, hist[i].prepend, hist[i].append))
                    ELSE before.WhereArgs[k]
           /\ after.Search =
                IF SearchExpected(before)
                THEN patchString(before.Search, hist[i].prepend, hist[i].append)
                ELSE before.Search

\* the fragment w is a LIKE fragment
IsLikeFragment(w) == Contains(ToLower(w), sLikeLower)

\* C13: PatchLikeQuery changes nothing else: no WhereArgs key is added or
\* removed, Config is unchanged, and a non-string value, a value whose key
\* has no Config.Where entry, a value whose fragment is not a LIKE fragment,
\* a string that already contains "%" and a Search that is empty or contains
\* "%" are left untouched; with prepend = append = false the Query is
\* unchanged.
C13_PatchFrame ==
    \A i \in 1..Len(hist) :
        LET before == hist[i].q
            after == PatchAfter(i)
            args == before.WhereArgs
        IN /\ DOMAIN after.WhereArgs = DOMAIN args
           /\ c = loc.c
           /\ \A k \in DOMAIN args :
                (\/ args[k].kind # "str"
                 \/ (k \notin DOMAIN c.Where /\ canonKey(k) \notin DOMAIN c.Where)
                 \/ (k \in DOMAIN c.Where /\ ~IsLikeFragment(c.Where[k]))
                 \/ (args[k].kind = "str" /\ Contains(args[k].s, sPercent)))
                    => after.WhereArgs[k] = args[k]
           /\ (before.Search = <<>> \/ Contains(before.Search, sPercent))
                    => after.Search = before.Search
           /\ (~hist[i].prepend /\ ~hist[i].append) => after = before

OrderCalled == ret.fn = "orderBy"

\* the words of s, runs of whitespace being the separators
RECURSIVE FieldsFrom(_, _, _)
FieldsFrom(s, i, cur) ==
    IF i > Len(s) THEN (IF cur = <<>> THEN <<>> ELSE <<cur>>)
    ELSE IF IsSpace(s[i])
         THEN (IF cur = <<>> THEN <<>> ELSE <<cur>>) \o FieldsFrom(s, i + 1, <<>>)
         ELSE FieldsFrom(s, i + 1, Append(cur, s[i]))

Fields(s) == FieldsFrom(s, 1, <<>>)

Directions == {sAsc, sDesc}

NonBlank(list) == SelectSeq(list, LAMBDA t : TrimSpace(t) # <<>>)

\* tok is "<col>" or "<col><whitespace><dir>", col in the whitelist and dir
\* asc or desc, letter case apart
OrderTokenStated(tok) ==
    LET f == Fields(ToLower(tok))
    IN /\ Len(f) \in {1, 2}
       /\ \E j \in 1..Len(c.OrderableCols) : f[1] = ToLower(c.OrderableCols[j])
       /\ Len(f) = 2 => f[2] \in Directions

\* the non-blank tokens as "<col>" or "<col> <dir>", lower-cased, in request
\* order
OrderStatedFragment ==
    LET nb == NonBlank(q.OrderBy)
    IN Join([i \in 1..Len(nb) |-> Join(Fields(ToLower(nb[i])), <<" ">>)], CommaSpace)

\* C14 as stated: when every non-blank token is "<col>" or
\* "<col><whitespace><dir>" with a whitelisted column and a direction asc or
\* desc, orderBy succeeds and returns the tokens in request order, lower-cased,
\* with one space before the direction, joined by ", ".
C14_AsStated ==
    (OrderCalled /\ \A i \in 1..Len(q.OrderBy) :
                        TrimSpace(q.OrderBy[i]) # <<>> => OrderTokenStated(q.OrderBy[i]))
        => (ret.err = NoErr /\ ret.frag = OrderStatedFragment)

\* tok, trimmed, is "<col>" or "<col> <dir>" with exactly one space between
OrderTokenOneSpace(tok) ==
    \E j \in 1..Len(c.OrderableCols) :
        \/ EqualFold(TrimSpace(tok), c.OrderableCols[j])
        \/ \E d \in Directions : EqualFold(TrimSpace(tok), c.OrderableCols[j] \o <<" ">> \o d)

OrderAllOneSpace ==
    \A i \in 1..Len(q.OrderBy) : TrimSpace(q.OrderBy[i]) # <<>> => OrderTokenOneSpace(q.OrderBy[i])

OrderExpected ==
    LET nb == NonBlank(q.OrderBy)
    IN Join([i \in 1..Len(nb) |-> ToLower(TrimSpace(nb[i]))], CommaSpace)

\* C14: orderBy splits the trimmed token on single spaces.  It succeeds
\* exactly when every non-blank token is "<col>" or "<col> <dir>" with one
\* space, col in OrderableCols and dir asc or desc, letter case apart; it then
\* returns the non-blank tokens trimmed and lower-cased, in request order,
\* repeats kept, joined by ", ".
C14_OrderAccepts ==
    OrderCalled =>
        /\ OrderAllOneSpace <=> ret.err = NoErr
        /\ OrderAllOneSpace => ret.frag = OrderExpected

\* " id DESC " after "age desc" under the whitelist "ID", "age": request
\* order, lower-cased
C14_Witness ==
    /\ OrderCalled
    /\ c.OrderableCols = <<<<"I", "D">>, sAge>>
    /\ q.OrderBy = <<<<"a", "g", "e", " ", "d", "e", "s", "c">>,
                     <<" ", "i", "d", " ", "D", "E", "S", "C", " ">>>>
    /\ ret.err = NoErr
    /\ ret.frag = <<"a", "g", "e", " ", "d", "e", "s", "c", ",", " ", "i", "d", " ", "d", "e", "s", "c">>

\* some token has more than two whitespace-separated parts
OrderTooManyParts == \E i \in 1..Len(q.OrderBy) : Len(Fields(q.OrderBy[i])) > 2

\* some token has a second part that is not asc or desc, letter case apart
OrderBadDirection ==
    \E i \in 1..Len(q.OrderBy) :
        LET f == Fields(ToLower(q.OrderBy[i])) IN Len(f) = 2 /\ f[2] \notin Directions

\* C15: orderBy returns an error when a token has more than two
\* whitespace-separated parts, when a token's direction is present and is not
\* asc or desc in any letter case, and, OrderableCols being empty, whenever
\* the request names anything to order by; with every error the fragment is
\* empty.  A request with no token, or with blank tokens only, yields no
\* ordering and no error whatever the whitelist.
C15_OrderRejects ==
    OrderCalled =>
        /\ OrderTooManyParts => ret.err # NoErr
        /\ OrderBadDirection => ret.err # NoErr
        /\ (c.OrderableCols = <<>> /\ NonBlank(q.OrderBy) # <<>>) => ret.err # NoErr
        /\ ret.err # NoErr => ret.frag = <<>>
        /\ NonBlank(q.OrderBy) = <<>> => (ret.err = NoErr /\ ret.frag = <<>>)

\* "id" is accepted, then "id up" is refused for its direction: the fragment
\* built so far is dropped
C15_Witness ==
    /\ OrderCalled
    /\ c.OrderableCols = <<sId>>
    /\ q.OrderBy = <<sId, <<"i", "d", " ", "u", "p">>>>
    /\ ret.err = Err("order direction", <<"i", "d", " ", "u", "p">>)
    /\ ret.frag = <<>>

\* every whitelisted column, lower-cased, in whitelist order
SelectWholeWhitelist ==
    Join([j \in 1..Len(c.SelectableCols) |-> ToLower(c.SelectableCols[j])], CommaSpace)

\* the non-blank requested tokens, trimmed and lower-cased, in request order
SelectNonBlankExpected ==
    LET nb == NonBlank(q.Select)
    IN Join([i \in 1..Len(nb) |-> ToLower(TrimSpace(nb[i]))], CommaSpace)

SearchDisallowed == loc.c.DisallowSearchTerm /\ loc.q.Search # <<>>

\* what where can return for the Query when the Config allows searching
WhereWithoutFlag ==
    {where([loc.c EXCEPT !.DisallowSearchTerm = FALSE], loc.q, iter, likeIter) :
        iter \in Perms(DOMAIN loc.q.WhereArgs), likeIter \in Perms(DOMAIN loc.c.Where)}

NoFind == db.found = <<>> /\ \A i \in 1..Len(db.log) : db.log[i] # "Find"

KeyMatches(k, w) == EqualFold(TrimSpace(k), w)

\* C18: a WhereArgs key that equals a Config.Where key up to letter case and
\* surrounding whitespace is accepted by where and bound to that entry's
\* fragment, whatever the letter case of the Config.Where key.
C18_KeysAnyCase ==
    (/\ WhereCalled
     /\ ~(c.DisallowSearchTerm /\ q.Search # <<>>)
     /\ \A k \in DOMAIN q.WhereArgs : \E w \in DOMAIN c.Where : KeyMatches(k, w))
        => /\ ret.err = NoErr
           /\ \A k \in DOMAIN q.WhereArgs :
                \E w \in DOMAIN c.Where :
                    /\ KeyMatches(k, w)
                    /\ Contains(ret.frag, canonKey(k) \o <<" ">> \o c.Where[w])

\* the Config.Where keys whose fragment has "like" in any letter case, in
\* lexicographic order
LikeKeysAnyCase ==
    CHOOSE p \in Perms({k \in DOMAIN c.Where : Contains(ToLower(c.Where[k]), sLikeLower)}) :
        \A i, j \in 1..Len(p) : i < j => StrLess(p[i], p[j])

OrGroupAnyCase ==
    Join([i \in 1..Len(LikeKeysAnyCase) |->
            LikeKeysAnyCase[i] \o <<" ">> \o c.Where[LikeKeysAnyCase[i]]], sOr)

\* C19: with a non-empty search term the OR-group of where has exactly the
\* Config.Where keys whose fragment contains "like" in any letter case ("like
\* ?", "LIKE ?", "Like ?"), in lexicographic order, and the search value is
\* appended to the arguments once per such key.
C19_SearchFanOut ==
    (WhereCalled /\ q.Search # <<>> /\ ~c.DisallowSearchTerm /\ ~BadWhere) =>
        /\ ret.err = NoErr
        /\ \E p \in SortedKeyLists :
             /\ ret.frag = Combined(AndGroup(p), OrGroupAnyCase)
             /\ Len(ret.args) = Len(p) + Len(LikeKeysAnyCase)
             /\ \A i \in (Len(p) + 1)..Len(ret.args) : ret.args[i] = StrVal(q.Search)

Resolved(cfg) ==
    [cfg EXCEPT !.DefaultPageSize = IF cfg.DefaultPageSize = 0 THEN 25 ELSE cfg.DefaultPageSize,
                !.MaxPageSize = IF cfg.MaxPageSize = 0 THEN 1000 ELSE cfg.MaxPageSize]

IsNumeric(f) == f.kind \in {"int", "uint"}

\* the numeric value of f lies in 0 .. 2^(8w)-1
FitsBytes(f, w) == ~f.neg /\ \A i \in (w + 1)..8 : f.mag[i] = 0

\* the fields of req named name
FieldsNamed(req, name) == {i \in 1..Len(req) : req[i].name = name}

\* the request has a numeric Page below 1
FormPageBelowOne(req) ==
    \E i \in FieldsNamed(req, nPage) : IsNumeric(req[i]) /\ (req[i].neg \/ IsZero(req[i].mag))

\* C21: ToQuery converts Page and PageSize only when they fit: a numeric
\* field within the range of uint32, respectively uint16, is copied with its
\* value; a field that is not numeric, or negative, or above the range,
\* leaves Query.Page, respectively Query.PageSize, as it was before the call
\* and is never wrapped modulo 2^32 or 2^16.  So Do on the Query converted
\* from a form with Page < 1 fails with the invalid-page error.
C21_ToQueryFits ==
    /\ \A n \in 1..Len(hist) :
         LET before == hist[n].q
             req == hist[n].req
             after == hist[n].out
         IN /\ \A i \in FieldsNamed(req, nPage) :
                 after.Page = IF IsNumeric(req[i]) /\ FitsBytes(req[i], 4)
                              THEN SubSeq(req[i].mag, 1, 4)
                              ELSE before.Page
            /\ \A i \in FieldsNamed(req, nPageSize) :
                 after.PageSize = IF IsNumeric(req[i]) /\ FitsBytes(req[i], 2)
                                  THEN req[i].mag[1] + 256 * req[i].mag[2]
                                  ELSE before.PageSize
    /\ (/\ DoReturned
        /\ hist # <<>>
        /\ loc.q = hist[Len(hist)].out
        /\ FormPageBelowOne(hist[Len(hist)].req))
          => ret.err = Err("invalid page", loc.q.Page)

\* the page size call t obtains when it runs alone on the Config as it was
AloneSize(t) ==
    LET d == IF loc.c.DefaultPageSize = 0 THEN 25 ELSE loc.c.DefaultPageSize
        m == IF loc.c.MaxPageSize = 0 THEN 1000 ELSE loc.c.MaxPageSize
    IN IF th[t].q.PageSize = 0 THEN d
       ELSE IF th[t].q.PageSize > m THEN m
       ELSE th[t].q.PageSize

====
